---- MODULE Spec2Model ----
(***************************************************************************)
(* Signal subscription and dispatch of dbus.Bus (src/dbus/_dbus.py).       *)
(*                                                                         *)
(* The Bus class is modelled from its source.  The classes it imports from *)
(* the matchrules module (SignalMatchRule, SignalMatchTree), the name      *)
(* resolver reached through the proxy object and the transport primitives  *)
(* of _dbus_bindings are not part of src/: they are modelled from the      *)
(* natural-language specification (spec.md, sections 3, 4 and 6).          *)
(***************************************************************************)
EXTENDS Integers, Sequences, FiniteSets, Bags, TLC

(***************************************************************************)
(* Values.                                                                 *)
(*                                                                         *)
(* Python's None is the string "None" for the fields that hold plain       *)
(* strings.  A bus name is the sequence <<first character, rest>>, so that *)
(* named_service[0] is Head(named_service); a falsy name (None or '') is   *)
(* the empty sequence.  A keyword key is the sequence of its characters.   *)
(***************************************************************************)
None == "None"

NoName == << >>

NoArgs == << >>

TYPE_SESSION == "BUS_SESSION"

TYPE_SYSTEM == "BUS_SYSTEM"

TYPE_STARTER == "BUS_STARTER"

BusTypes == {TYPE_SESSION, TYPE_SYSTEM, TYPE_STARTER}

(***************************************************************************)
(* Bounds of the model.                                                    *)
(***************************************************************************)
\* Bus objects constructed in one run (object identities 1..MaxBuses).
MaxBuses == 2

\* Entries held by one connection's match tree.
MaxRules == 3

\* Match rules registered with the daemon by one connection.
MaxMatches == 3

BusIds == 1..MaxBuses

(***************************************************************************)
(* int(snum) of Python 2 (PyInt_FromString with base 10): whitespace, one  *)
(* optional sign, whitespace again, one or more decimal digits, whitespace *)
(* and the end of the string; anything else is a ValueError.  The          *)
(* whitespace is that of C's isspace: space, \t, \n, \v, \f and \r.        *)
(***************************************************************************)
Digits == <<"0", "1", "2", "3", "4", "5", "6", "7", "8", "9">>

IsDigit(ch) == \E i \in DOMAIN Digits : Digits[i] = ch

DigitVal(ch) == (CHOOSE i \in DOMAIN Digits : Digits[i] = ch) - 1

\* The vertical tab, '\x0b', for which TLA+ has no escape.
VT == "<VT>"

Whitespace == {" ", "\t", "\n", VT, "\f", "\r"}

RECURSIVE LStrip(_)
LStrip(s) ==
    IF s # << >> /\ Head(s) \in Whitespace THEN LStrip(Tail(s)) ELSE s

RECURSIVE RStrip(_)
RStrip(s) ==
    IF s # << >> /\ s[Len(s)] \in Whitespace
    THEN RStrip(SubSeq(s, 1, Len(s) - 1)) ELSE s

RECURSIVE DigitsVal(_)
DigitsVal(d) ==
    IF d = << >> THEN 0
    ELSE 10 * DigitsVal(SubSeq(d, 1, Len(d) - 1)) + DigitVal(d[Len(d)])

int(s) ==
    LET t == LStrip(s)
        signed == t # << >> /\ Head(t) \in {"+", "-"}
        d == RStrip(LStrip(IF signed THEN Tail(t) ELSE t))
    IN  IF d # << >> /\ \A i \in DOMAIN d : IsDigit(d[i])
        THEN [ok |-> TRUE,
              val |-> IF signed /\ Head(t) = "-" THEN 0 - DigitsVal(d)
                      ELSE DigitsVal(d)]
        ELSE [ok |-> FALSE, val |-> 0]

(***************************************************************************)
(* Bus._create_args_dict.                                                  *)
(***************************************************************************)
startswith(key, prefix) ==
    Len(key) >= Len(prefix) /\ SubSeq(key, 1, Len(prefix)) = prefix

ArgPrefix == <<"a", "r", "g">>

sender_keyword ==
    <<"s", "e", "n", "d", "e", "r", "_", "k", "e", "y", "w", "o", "r", "d">>

path_keyword == <<"p", "a", "t", "h", "_", "k", "e", "y", "w", "o", "r", "d">>

\* key[3:]
snum(key) == SubSeq(key, 4, Len(key))

\* A key whose branch of the loop raises TypeError.
RaisesTypeError(key) ==
    IF startswith(key, ArgPrefix) THEN ~int(snum(key)).ok
    ELSE key \notin {sender_keyword, path_keyword}

\* keywords is the dictionary as keywords.iteritems() yields it: the
\* sequence of its <<key, value>> pairs, no key twice.
Keys(keywords) == {keywords[i][1] : i \in DOMAIN keywords}

\* kw in keywords.
HasKey(keywords, kw) == kw \in Keys(keywords)

\* keywords[kw].
Lookup(keywords, kw) ==
    keywords[CHOOSE i \in DOMAIN keywords : keywords[i][1] = kw][2]

\* The loop of lines 190-205 over the pairs that raise nothing: line 199
\* stores each value under its index, a later pair of the same index (arg0
\* after arg00) replacing an earlier one.
RECURSIVE collect_args(_, _)
collect_args(keywords, n) ==
    IF n = 0 THEN NoArgs
    ELSE LET before == collect_args(keywords, n - 1)
             key == keywords[n][1]
             value == keywords[n][2]
         IN  IF startswith(key, ArgPrefix)
             THEN LET num == int(snum(key)).val
                  IN  [i \in DOMAIN before \cup {num} |->
                          IF i = num THEN value ELSE before[i]]
             ELSE before

\* The result is the exception raised, or the dictionary returned; a call
\* without argN keywords returns None, which like {} is falsy: NoArgs.
create_args_dict(keywords) ==
    IF \E k \in Keys(keywords) : RaisesTypeError(k)
    THEN [err |-> "TypeError", args_dict |-> NoArgs]
    ELSE [err |-> None, args_dict |-> collect_args(keywords, Len(keywords))]

(***************************************************************************)
(* matchrules.SignalMatchRule, from the specification (section 3, "Match   *)
(* Pattern"): four optional filter fields, optional positional matches, an *)
(* ordered list of callbacks and two keyword-binding names.                *)
(***************************************************************************)
SignalMatchRule(signal_name, dbus_interface, sender, path) ==
    [signal_name |-> signal_name,
     dbus_interface |-> dbus_interface,
     sender |-> sender,
     path |-> path,
     args |-> NoArgs,
     handler_functions |-> << >>,
     sender_keyword |-> None,
     path_keyword |-> None]

add_args_match(rule, args_dict) == [rule EXCEPT !.args = args_dict]

add_handler(rule, handler) ==
    [rule EXCEPT !.handler_functions = Append(@, handler)]

\* repr(match_rule): the daemon's match-rule string (section 6), which is
\* determined by the filter fields and the positional matches.
MatchRuleString(rule) ==
    [type |-> "signal",
     interface |-> rule.dbus_interface,
     member |-> rule.signal_name,
     sender |-> rule.sender,
     path |-> rule.path,
     args |-> rule.args]

\* Section 4.1: every filter field present in the pattern equals the probe's.
FieldsMatch(rule, probe) ==
    /\ rule.signal_name = None \/ rule.signal_name = probe.signal_name
    /\ rule.dbus_interface = None \/ rule.dbus_interface = probe.dbus_interface
    /\ rule.sender = NoName \/ rule.sender = probe.sender
    /\ rule.path = None \/ rule.path = probe.path

\* Section 4.1: every recorded (index, value) is met by the argument list,
\* whose element at Python index i is args_list[i + 1].
match_args_from_list(rule, args_list) ==
    \A i \in DOMAIN rule.args :
        /\ i >= 0
        /\ Len(args_list) >= i + 1
        /\ args_list[i + 1] = rule.args[i]

(***************************************************************************)
(* matchrules.SignalMatchTree, from the specification (section 4.2): the   *)
(* entries in insertion order.                                             *)
(***************************************************************************)
SignalMatchTree == << >>

TreeAdd(t, rule) == Append(t, rule)

\* The removal key's filter fields equal the entry's.
SameFilter(entry, key) ==
    /\ entry.signal_name = key.signal_name
    /\ entry.dbus_interface = key.dbus_interface
    /\ entry.sender = key.sender
    /\ entry.path = key.path
    /\ entry.args = key.args

Contains(seq, x) == \E i \in DOMAIN seq : seq[i] = x

\* remove(pattern_key): without a handler reference every entry of the key's
\* filter goes; with one, the handler leaves the entries of that filter that
\* contain it, and an entry left without callbacks is pruned.
TreeRemove(t, key) ==
    LET keyed == key.handler_functions # << >>
        hit(e) ==
            /\ SameFilter(e, key)
            /\ keyed => \E i \in DOMAIN key.handler_functions :
                            Contains(e.handler_functions, key.handler_functions[i])
        notkey(h) == ~Contains(key.handler_functions, h)
        strip(e) ==
            IF hit(e)
            THEN [e EXCEPT !.handler_functions =
                     IF keyed THEN SelectSeq(@, notkey) ELSE << >>]
            ELSE e
        live(e) == e.handler_functions # << >>
    IN  SelectSeq([i \in DOMAIN t |-> strip(t[i])], live)

\* find_matches(probe) followed by the invocation of each match's callbacks:
\* the handlers called, in call order.
RECURSIVE exec_matches(_, _, _)
exec_matches(t, probe, args_list) ==
    IF t = << >> THEN << >>
    ELSE (IF FieldsMatch(Head(t), probe)
             /\ match_args_from_list(Head(t), args_list)
          THEN Head(t).handler_functions
          ELSE << >>) \o exec_matches(Tail(t), probe, args_list)

(***************************************************************************)
(* The environment: names, call arguments and messages of the model.       *)
(***************************************************************************)
U1 == <<":", "1.1">>

U2 == <<":", "1.2">>

WellKnownA == <<"o", "rg.example.A">>

WellKnownGone == <<"o", "rg.example.Gone">>

WellKnownNames == {WellKnownA, WellKnownGone}

IfaceI == "org.example.I"

IfaceJ == "org.example.J"

\* The arguments of one add_signal_receiver or remove_signal_receiver call.
Call(signal_name, dbus_interface, named_service, path, keywords) ==
    [signal_name |-> signal_name,
     dbus_interface |-> dbus_interface,
     named_service |-> named_service,
     path |-> path,
     keywords |-> keywords]

NoKw == << >>

KwArg0 == <<<<<<"a", "r", "g", "0">>, "X">>>>

KwArg1 == <<<<<<"a", "r", "g", "1">>, "X">>>>

KwArgNegative == <<<<<<"a", "r", "g", "-", "1">>, "X">>>>

KwArgMalformed == <<<<<<"a", "r", "g", "x">>, "X">>>>

KwUnknown == <<<<<<"f", "o", "o">>, "X">>>>

KwSender == <<<<sender_keyword, "sender">>>>

\* Two keys of index 0, 'arg0' met first and 'arg00' last by iteritems().
KwArg0Twice ==
    << <<<<"a", "r", "g", "0">>, "Y">>, <<<<"a", "r", "g", "0", "0">>, "X">> >>

\* 'arg+ 1': a sign, a blank and a digit, which int() reads as 1.
KwArgSigned == <<<<<<"a", "r", "g", "+", " ", "1">>, "X">>>>

CallFoo == Call("Foo", None, NoName, None, NoKw)

CallBar == Call("Bar", None, NoName, None, NoKw)

CallPath == Call(None, None, NoName, "/a", NoKw)

CallWild == Call(None, None, NoName, None, NoKw)

CallFooKw == Call("Foo", None, NoName, None, KwSender)

CallWellKnown == Call("Foo", None, WellKnownA, None, NoKw)

CallGone == Call("Foo", None, WellKnownGone, None, NoKw)

CallNegative == Call("Foo", None, NoName, None, KwArgNegative)

CallMalformed == Call("Foo", None, NoName, None, KwArgMalformed)

CallUnknown == Call("Foo", None, NoName, None, KwUnknown)

CallArg0 == Call("Foo", None, NoName, None, KwArg0)

CallArg1 == Call("Foo", None, NoName, None, KwArg1)

CallArg0Twice == Call("Foo", None, NoName, None, KwArg0Twice)

CallArgSigned == Call("Foo", None, NoName, None, KwArgSigned)

\* Every combination of present and absent filter fields.
FieldCalls ==
    {Call(s, i, n, p, NoKw) : s \in {None, "Foo"}, i \in {None, IfaceI},
                              n \in {NoName, U1}, p \in {None, "/a"}}

\* An inbound message: the accessors _signal_func and exec_matches read.
Message(type, interface, sender, path, member, args_list) ==
    [type |-> type, interface |-> interface, sender |-> sender,
     path |-> path, member |-> member, args_list |-> args_list]

MESSAGE_TYPE_SIGNAL == "signal"

MESSAGE_TYPE_METHOD_CALL == "method_call"

MsgFoo == Message(MESSAGE_TYPE_SIGNAL, IfaceI, U1, "/a", "Foo", << >>)

MsgFooB == Message(MESSAGE_TYPE_SIGNAL, IfaceI, U1, "/b", "Foo", << >>)

MsgFooU2 == Message(MESSAGE_TYPE_SIGNAL, IfaceI, U2, "/a", "Foo", <<"X">>)

MsgBar == Message(MESSAGE_TYPE_SIGNAL, IfaceI, U1, "/a", "Bar", << >>)

MsgCall == Message(MESSAGE_TYPE_METHOD_CALL, IfaceI, U1, "/a", "Foo", << >>)

MsgArgX == Message(MESSAGE_TYPE_SIGNAL, IfaceI, U1, "/a", "Foo", <<"X">>)

MsgArgLower == Message(MESSAGE_TYPE_SIGNAL, IfaceI, U1, "/a", "Foo", <<"x">>)

MsgArgYX ==
    Message(MESSAGE_TYPE_SIGNAL, IfaceI, U1, "/a", "Foo", <<"Y", "X">>)

MsgArgXX ==
    Message(MESSAGE_TYPE_SIGNAL, IfaceI, U1, "/a", "Foo", <<"X", "X">>)

MsgBarXX ==
    Message(MESSAGE_TYPE_SIGNAL, IfaceI, U1, "/a", "Bar", <<"X", "X">>)

\* Every combination of values of the four fields.
FieldSignals ==
    {Message(MESSAGE_TYPE_SIGNAL, i, n, p, s, <<"X">>) :
        i \in {IfaceI, IfaceJ}, n \in {U1, U2}, p \in {"/a", "/b"},
        s \in {"Foo", "Bar"}}

(***************************************************************************)
(* A vocabulary is what one application does with the library: the         *)
(* (handler, arguments) pairs it subscribes and unsubscribes, the messages *)
(* its connections receive, the Bus constructions it makes, the number of  *)
(* Bus objects it constructs, the entries it keeps in one tree, the rules   *)
(* it registers on one connection and the ownership changes of the         *)
(* well-known names during its run.                                        *)
(***************************************************************************)
Vocabulary(subs, removes, msgs, news, buses, rules, matches, owners) ==
    [subs |-> subs, removes |-> removes, msgs |-> msgs, news |-> news,
     buses |-> buses, rules |-> rules, matches |-> matches, owners |-> owners]

OneSession == {<<TYPE_SESSION, FALSE>>}

\* Several connections, one subscription each.
BusVocab ==
    Vocabulary({<<"A", CallFooKw>>}, {<<"A", CallFooKw>>}, {MsgFoo},
               {<<TYPE_SESSION, FALSE>>, <<TYPE_SESSION, TRUE>>,
                <<TYPE_SYSTEM, FALSE>>, <<TYPE_STARTER, FALSE>>,
                <<"invalid", FALSE>>},
               MaxBuses, 1, 2, {})

\* Several handlers on one filter, and a second filter.
OrderVocab ==
    Vocabulary({<<"A", CallFoo>>, <<"B", CallFoo>>, <<"C", CallFoo>>,
                <<"B", CallPath>>},
               {<<"A", CallFoo>>, <<"B", CallFoo>>, <<None, CallFoo>>,
                <<"A", CallBar>>, <<None, CallPath>>},
               {MsgFoo, MsgFooB, MsgBar, MsgCall},
               OneSession, 1, MaxRules, MaxMatches, {})

\* Calls that fail, and a well-known sender whose owner changes.
ErrVocab ==
    Vocabulary({<<"A", CallFoo>>, <<"A", CallWellKnown>>, <<"A", CallGone>>,
                <<"A", CallNegative>>, <<"A", CallMalformed>>,
                <<"A", CallUnknown>>},
               {<<"A", CallFoo>>, <<"A", CallWellKnown>>, <<"A", CallGone>>,
                <<"A", CallMalformed>>},
               {MsgFoo, MsgFooU2},
               OneSession, 1, 2, 2,
               {<<WellKnownA, U2>>, <<WellKnownA, NoName>>})

\* One filter out of every combination of fields, against every combination
\* of field values.
FieldVocab(f) ==
    Vocabulary({<<"A", f>>}, {<<"A", f>>}, FieldSignals,
               OneSession, 1, 1, 2, {})

\* Positional matches against argument lists.
ArgVocab ==
    Vocabulary({<<"A", CallArg0>>, <<"B", CallArg1>>},
               {<<"A", CallArg0>>, <<None, CallArg1>>},
               {MsgFoo, MsgArgX, MsgArgLower, MsgArgYX, MsgArgXX, MsgBarXX},
               OneSession, 1, MaxRules, MaxMatches, {})

\* Keys that int() reads as an index another spelling names too.
SpellingVocab ==
    Vocabulary({<<"A", CallArg0Twice>>, <<"B", CallArgSigned>>},
               {<<"A", CallArg0>>, <<"B", CallArg1>>},
               {MsgArgX, MsgArgYX},
               OneSession, 1, 2, 2, {})

\* A callback that raises, beside callbacks on its pattern's filter and on
\* another filter.
RaiseVocab ==
    Vocabulary({<<"R", CallFoo>>, <<"A", CallFoo>>, <<"B", CallPath>>},
               {<<"R", CallFoo>>},
               {MsgFoo, MsgFooB},
               OneSession, 1, MaxRules, MaxMatches, {})

\* Callbacks that unsubscribe and subscribe while they are called.
ReentrantVocab ==
    Vocabulary({<<"U", CallFoo>>, <<"B", CallFoo>>, <<"S", CallFoo>>},
               {<<"U", CallFoo>>},
               {MsgFoo, MsgBar},
               OneSession, 1, MaxRules, MaxMatches, {})

\* A shared connection that is subscribed to, closed and requested again.
CloseVocab ==
    Vocabulary({<<"A", CallFoo>>}, {<<"A", CallFoo>>}, {MsgFoo},
               OneSession, 1, 1, 2, {})

Vocabularies ==
    {BusVocab, OrderVocab, ErrVocab, ArgVocab, SpellingVocab, RaiseVocab,
     ReentrantVocab, CloseVocab}
        \cup {FieldVocab(f) : f \in FieldCalls}

\* The applications that close their connections.
Closing == {CloseVocab}

(***************************************************************************)
(* The callbacks of the application: what a handler does when it is        *)
(* called.  R raises; U unsubscribes B from the filter of CallFoo; S       *)
(* subscribes C to it; every other handler returns.                        *)
(***************************************************************************)
CallbackBody(h) ==
    IF h = "R" THEN [op |-> "raise"]
    ELSE IF h = "U" THEN [op |-> "remove", handler |-> "B", call |-> CallFoo]
    ELSE IF h = "S" THEN [op |-> "add", handler |-> "C", call |-> CallFoo]
    ELSE [op |-> "return"]

Raises(h) == CallbackBody(h).op = "raise"

(***************************************************************************)
(* State.                                                                  *)
(*   vocab   the application's vocabulary, fixed for a run                 *)
(*   owner   the daemon's table: well-known name -> unique owner or NoName *)
(*   shared  Bus._shared_instances: bus type -> Bus object, 0 for no entry *)
(*   nbus    the number of Bus objects constructed so far                  *)
(*   bus     each Bus object: _bus_type, private, alive (not yet           *)
(*           reclaimed), filters (add_filter calls on its connection),     *)
(*           open (its connection has not been closed)                     *)
(*   tree    each Bus object's _match_rule_tree                            *)
(*   daemon  the match rules the daemon holds for each connection (a bag)  *)
(*   pc      the position of the program: idle, blocked in the GetNameOwner *)
(*           call of line 251 or line 281 with the daemon's reply on its   *)
(*           way, or between line 266 and line 268                         *)
(*   ret     the last operation: its arguments, what it returned or        *)
(*           raised, the handlers a dispatch called, and the tree, the     *)
(*           daemon's rules of its connection and the daemon's table as    *)
(*           they were when it began                                       *)
(***************************************************************************)
VARIABLES vocab, owner, shared, nbus, bus, tree, daemon, pc, ret

vars == <<vocab, owner, shared, nbus, bus, tree, daemon, pc, ret>>

Idle == [op |-> "idle"]

NoBus ==
    [bus_type |-> None, private |-> FALSE, alive |-> FALSE, filters |-> 0,
     open |-> FALSE]

Ret(op, b, handler, call, result, msg, invoked) ==
    [op |-> op, bus |-> b, handler |-> handler, call |-> call,
     result |-> result, msg |-> msg, invoked |-> invoked,
     before |-> IF b \in BusIds THEN tree[b] ELSE << >>,
     dbefore |-> IF b \in BusIds THEN daemon[b] ELSE EmptyBag,
     owner |-> owner]

\* The daemon's table when the program starts.
InitialOwners ==
    [n \in WellKnownNames |-> IF n = WellKnownA THEN U1 ELSE NoName]

Init ==
    /\ vocab \in Vocabularies
    /\ owner = InitialOwners
    /\ shared = [t \in BusTypes |-> 0]
    /\ nbus = 0
    /\ bus = [b \in BusIds |-> NoBus]
    /\ tree = [b \in BusIds |-> SignalMatchTree]
    /\ daemon = [b \in BusIds |-> EmptyBag]
    /\ pc = Idle
    /\ ret = [op |-> "init", bus |-> 0, handler |-> None, call |-> None,
              result |-> None, msg |-> None, invoked |-> << >>,
              before |-> << >>, dbefore |-> EmptyBag,
              owner |-> InitialOwners]

Alive(b) == b \in BusIds /\ bus[b].alive

(***************************************************************************)
(* Bus.__new__ (lines 81-134).                                             *)
(***************************************************************************)
\* Line 97 with the registry never consulted.
NeverInShared(sh, bus_type, private) == FALSE

\* Line 97: not private and bus_type in cls._shared_instances.
InShared(sh, bus_type, private) ==
    ~private /\ bus_type \in DOMAIN sh /\ sh[bus_type] # 0

\* Lines 131-132 without the test of private.
RegisterAlways(sh, bus_type, private, b) == [sh EXCEPT ![bus_type] = b]

\* Lines 131-132: if not private: cls._shared_instances[bus_type] = bus.
RegisterShared(sh, bus_type, private, b) ==
    IF ~private THEN [sh EXCEPT ![bus_type] = b] ELSE sh

\* Bus(bus_type, private=private): __new__, and then __init__ (lines
\* 136-139), which does nothing to the object __new__ returned.
Bus_new(bus_type, private) ==
    /\ pc = Idle
    /\ <<bus_type, private>> \in vocab.news
    /\ IF InShared(shared, bus_type, private)
       THEN /\ ret' = Ret("new", shared[bus_type], None, <<bus_type, private>>,
                          "shared", None, << >>)
            /\ UNCHANGED <<shared, nbus, bus, tree, daemon>>
       ELSE IF bus_type \notin BusTypes
       THEN /\ ret' = Ret("new", 0, None, <<bus_type, private>>, "ValueError",
                          None, << >>)
            /\ UNCHANGED <<shared, nbus, bus, tree, daemon>>
       ELSE /\ nbus < MaxBuses
            /\ nbus < vocab.buses
            /\ nbus' = nbus + 1
            /\ bus' = [bus EXCEPT ![nbus + 1] =
                          [bus_type |-> bus_type, private |-> private,
                           alive |-> TRUE, filters |-> 1, open |-> TRUE]]
            /\ tree' = [tree EXCEPT ![nbus + 1] = SignalMatchTree]
            /\ daemon' = [daemon EXCEPT ![nbus + 1] = EmptyBag]
            /\ shared' = RegisterShared(shared, bus_type, private, nbus + 1)
            /\ ret' = Ret("new", nbus + 1, None, <<bus_type, private>>,
                          "created", None, << >>)
    /\ UNCHANGED <<vocab, owner, pc>>

\* The weak dictionary of line 79: a Bus object that is no longer referenced
\* is reclaimed, with its tree and its connection, and its entry disappears.
Release(b) ==
    /\ pc = Idle
    /\ Alive(b)
    /\ bus' = [bus EXCEPT ![b].alive = FALSE]
    /\ shared' = [t \in BusTypes |-> IF shared[t] = b THEN 0 ELSE shared[t]]
    /\ tree' = [tree EXCEPT ![b] = SignalMatchTree]
    /\ daemon' = [daemon EXCEPT ![b] = EmptyBag]
    /\ ret' = Ret("release", b, None, None, None, None, << >>)
    /\ UNCHANGED <<vocab, owner, nbus, pc>>

\* Bus.close (lines 141-143): self._connection.close(), and nothing else.
close(b) ==
    /\ pc = Idle
    /\ Alive(b)
    /\ vocab \in Closing
    /\ bus[b].open
    /\ bus' = [bus EXCEPT ![b].open = FALSE]
    /\ ret' = Ret("close", b, None, None, None, None, << >>)
    /\ UNCHANGED <<vocab, owner, shared, nbus, tree, daemon, pc>>

(***************************************************************************)
(* The name resolver: GetNameOwner on the daemon (specification, section   *)
(* 6), and the daemon's table changing under the program.                  *)
(***************************************************************************)
GetNameOwner(own, name) ==
    IF name \in DOMAIN own /\ own[name] # NoName
    THEN [err |-> None, owner |-> own[name]]
    ELSE [err |-> "NameHasNoOwner", owner |-> NoName]

\* The daemon is a process of its own: a name changes hands whatever the
\* program is doing, also while it waits for a reply.
NameOwnerChanged(name, unique) ==
    /\ <<name, unique>> \in vocab.owners
    /\ owner[name] # unique
    /\ owner' = [owner EXCEPT ![name] = unique]
    /\ UNCHANGED <<vocab, shared, nbus, bus, tree, daemon, pc, ret>>

(***************************************************************************)
(* Bus.add_signal_receiver (lines 209-268).                                *)
(***************************************************************************)
\* Lines 249-251 with a failed lookup degraded to "no sender filter".
ResolveOrWildcard(own, named_service) ==
    IF named_service # NoName /\ Head(named_service) # ":"
    THEN [err |-> None, sender |-> GetNameOwner(own, named_service).owner]
    ELSE [err |-> None, sender |-> named_service]

\* Lines 249-251 with the name checked with the resolver and then kept.
ResolveKeepsName(own, named_service) ==
    IF named_service # NoName /\ Head(named_service) # ":"
    THEN [err |-> GetNameOwner(own, named_service).err,
          sender |-> named_service]
    ELSE [err |-> None, sender |-> named_service]

\* Lines 249-251: a truthy name that does not begin with ':' is replaced by
\* GetNameOwner's answer, whose exception propagates.
ResolveSender(own, named_service) ==
    IF named_service # NoName /\ Head(named_service) # ":"
    THEN LET reply == GetNameOwner(own, named_service)
         IN  [err |-> reply.err, sender |-> reply.owner]
    ELSE [err |-> None, sender |-> named_service]

KeywordOrNone(keywords, kw) ==
    IF HasKey(keywords, kw) THEN Lookup(keywords, kw) ELSE None

\* Lines 253-264 without the positional matches of lines 261-262.
BuildRuleNoArgs(handler_function, call, sender, args_dict) ==
    add_handler(
        [SignalMatchRule(call.signal_name, call.dbus_interface, sender,
                         call.path)
            EXCEPT !.sender_keyword =
                       KeywordOrNone(call.keywords, sender_keyword),
                   !.path_keyword =
                       KeywordOrNone(call.keywords, path_keyword)],
        handler_function)

\* Lines 253-264: the rule, its keyword names, its positional matches when
\* args_dict is truthy, and the handler.
BuildRule(handler_function, call, sender, args_dict) ==
    LET match_rule ==
            [SignalMatchRule(call.signal_name, call.dbus_interface, sender,
                             call.path)
                EXCEPT !.sender_keyword =
                           KeywordOrNone(call.keywords, sender_keyword),
                       !.path_keyword =
                           KeywordOrNone(call.keywords, path_keyword)]
        with_args ==
            IF DOMAIN args_dict # {} THEN add_args_match(match_rule, args_dict)
            ELSE match_rule
    IN  add_handler(with_args, handler_function)

\* Line 266 with the rule put in front of the tree's entries.
InsertFirst(t, match_rule) == <<match_rule>> \o t

\* Line 266: self._match_rule_tree.add(match_rule).
InsertRule(t, match_rule) == TreeAdd(t, match_rule)

\* Line 249: the name is truthy and does not begin with ':'.
NeedsLookup(named_service) ==
    named_service # NoName /\ Head(named_service) # ":"

\* Lines 247-266.  An exception of line 247 ends the call.  A well-known
\* name is looked up with a blocking call (line 251): the daemon answers
\* from its table as it is now and the caller goes on when the reply has
\* come.  Without a lookup the rule is in the tree and line 268 is next.
add_signal_receiver(b, handler_function, call) ==
    /\ pc = Idle
    /\ Alive(b)
    /\ <<handler_function, call>> \in vocab.subs
    /\ LET made == create_args_dict(call.keywords)
           resolved == ResolveSender(owner, call.named_service)
           match_rule == BuildRule(handler_function, call, resolved.sender,
                                   made.args_dict)
           room == /\ Len(tree[b]) < MaxRules
                   /\ Len(tree[b]) < vocab.rules
                   /\ BagCardinality(daemon[b]) < MaxMatches
                   /\ BagCardinality(daemon[b]) < vocab.matches
       IN  IF made.err # None
           THEN /\ ret' = Ret("add", b, handler_function, call, made.err,
                              None, << >>)
                /\ UNCHANGED <<tree, pc>>
           ELSE IF NeedsLookup(call.named_service)
           THEN /\ resolved.err = None => room
                /\ pc' = [op |-> "GetNameOwner", caller |-> "add", bus |-> b,
                          handler |-> handler_function, call |-> call,
                          reply |-> resolved]
                /\ ret' = Ret("add", b, handler_function, call, "blocked",
                              None, << >>)
                /\ tree' = tree
           ELSE /\ room
                /\ tree' = [tree EXCEPT ![b] = InsertRule(@, match_rule)]
                /\ pc' = [op |-> "add", bus |-> b, rule |-> match_rule]
                /\ ret' = Ret("add", b, handler_function, call, "pending",
                              None, << >>)
    /\ UNCHANGED <<vocab, owner, shared, nbus, bus, daemon>>

\* Lines 251-266 once the reply of GetNameOwner has come: its exception ends
\* the call; else the rule is built with the owner it names and inserted.
add_signal_receiver_reply ==
    /\ pc.op = "GetNameOwner"
    /\ pc.caller = "add"
    /\ LET match_rule ==
               BuildRule(pc.handler, pc.call, pc.reply.sender,
                         create_args_dict(pc.call.keywords).args_dict)
       IN  IF pc.reply.err # None
           THEN /\ ret' = [ret EXCEPT !.result = pc.reply.err]
                /\ pc' = Idle
                /\ tree' = tree
           ELSE /\ tree' = [tree EXCEPT ![pc.bus] = InsertRule(@, match_rule)]
                /\ pc' = [op |-> "add", bus |-> pc.bus, rule |-> match_rule]
                /\ ret' = [ret EXCEPT !.result = "pending"]
    /\ UNCHANGED <<vocab, owner, shared, nbus, bus, daemon>>

\* Line 268 with the daemon keeping one registration of each rule string.
bus_add_match_once(accepted) ==
    /\ pc.op = "add"
    /\ IF accepted
       THEN /\ daemon' = [daemon EXCEPT ![pc.bus] =
                             IF BagIn(MatchRuleString(pc.rule), @) THEN @
                             ELSE @ (+) SetToBag({MatchRuleString(pc.rule)})]
            /\ ret' = [ret EXCEPT !.result = "ok"]
       ELSE /\ daemon' = daemon
            /\ ret' = [ret EXCEPT !.result = "DBusException"]
    /\ pc' = Idle
    /\ UNCHANGED <<vocab, owner, shared, nbus, bus, tree>>

\* Line 268: _dbus_bindings.bus_add_match(self._connection, repr(match_rule)).
\* The transport registers the rule with the daemon, or rejects the string
\* and raises.
bus_add_match(accepted) ==
    /\ pc.op = "add"
    /\ IF accepted
       THEN /\ daemon' = [daemon EXCEPT ![pc.bus] =
                             @ (+) SetToBag({MatchRuleString(pc.rule)})]
            /\ ret' = [ret EXCEPT !.result = "ok"]
       ELSE /\ daemon' = daemon
            /\ ret' = [ret EXCEPT !.result = "DBusException"]
    /\ pc' = Idle
    /\ UNCHANGED <<vocab, owner, shared, nbus, bus, tree>>

(***************************************************************************)
(* Bus.remove_signal_receiver (lines 270-293).                             *)
(***************************************************************************)
\* Lines 283-289 without the handler of lines 288-289.
RemovalKeyNoHandler(handler_function, call, sender, args_dict) ==
    LET match_rule == SignalMatchRule(call.signal_name, call.dbus_interface,
                                      sender, call.path)
    IN  IF DOMAIN args_dict # {} THEN add_args_match(match_rule, args_dict)
        ELSE match_rule

\* Lines 283-289 without the test of line 288: the handler reference, None
\* included, is always added to the key.
RemovalKeyAlwaysHandler(handler_function, call, sender, args_dict) ==
    LET match_rule == SignalMatchRule(call.signal_name, call.dbus_interface,
                                      sender, call.path)
    IN  add_handler(IF DOMAIN args_dict # {}
                    THEN add_args_match(match_rule, args_dict)
                    ELSE match_rule,
                    handler_function)

\* Lines 283-289: the key, with positional matches when args_dict is truthy
\* and with the handler when handler_function is truthy.
RemovalKey(handler_function, call, sender, args_dict) ==
    LET match_rule == SignalMatchRule(call.signal_name, call.dbus_interface,
                                      sender, call.path)
        with_args ==
            IF DOMAIN args_dict # {} THEN add_args_match(match_rule, args_dict)
            ELSE match_rule
    IN  IF handler_function # None THEN add_handler(with_args, handler_function)
        ELSE with_args

\* Line 291 left out.
RemoveNothing(t, key) == t

\* Line 291: self._match_rule_tree.remove(match_rule).
RemoveRule(t, key) == TreeRemove(t, key)

\* Lines 277-291, with the same blocking lookup at line 281.
remove_signal_receiver(b, handler_function, call) ==
    /\ pc = Idle
    /\ Alive(b)
    /\ <<handler_function, call>> \in vocab.removes
    /\ LET made == create_args_dict(call.keywords)
           resolved == ResolveSender(owner, call.named_service)
           key == RemovalKey(handler_function, call, resolved.sender,
                             made.args_dict)
       IN  IF made.err # None
           THEN /\ ret' = Ret("remove", b, handler_function, call, made.err,
                              None, << >>)
                /\ UNCHANGED <<tree, pc>>
           ELSE IF NeedsLookup(call.named_service)
           THEN /\ pc' = [op |-> "GetNameOwner", caller |-> "remove",
                          bus |-> b, handler |-> handler_function,
                          call |-> call, reply |-> resolved]
                /\ ret' = Ret("remove", b, handler_function, call,
                              "blocked", None, << >>)
                /\ tree' = tree
           ELSE /\ tree' = [tree EXCEPT ![b] = RemoveRule(@, key)]
                /\ ret' = Ret("remove", b, handler_function, call, "ok",
                              None, << >>)
                /\ pc' = pc
    /\ UNCHANGED <<vocab, owner, shared, nbus, bus, daemon>>

\* Lines 281-291 once the reply of GetNameOwner has come.
remove_signal_receiver_reply ==
    /\ pc.op = "GetNameOwner"
    /\ pc.caller = "remove"
    /\ LET key == RemovalKey(pc.handler, pc.call, pc.reply.sender,
                             create_args_dict(pc.call.keywords).args_dict)
       IN  IF pc.reply.err # None
           THEN /\ ret' = [ret EXCEPT !.result = pc.reply.err]
                /\ tree' = tree
           ELSE /\ tree' = [tree EXCEPT ![pc.bus] = RemoveRule(@, key)]
                /\ ret' = [ret EXCEPT !.result = "ok"]
    /\ pc' = Idle
    /\ UNCHANGED <<vocab, owner, shared, nbus, bus, daemon>>

(***************************************************************************)
(* Bus._signal_func (lines 299-310), the filter the connection calls with  *)
(* each inbound message.                                                   *)
(***************************************************************************)
\* Lines 303-308 with the interface and the member exchanged.
ProbeSwapped(message) ==
    SignalMatchRule(message.interface, message.member, message.sender,
                    message.path)

\* Lines 303-308: the probe built from the message's own fields.
Probe(message) ==
    SignalMatchRule(message.member, message.interface, message.sender,
                    message.path)

\* Line 310 with the exception of a callback ending the pass: the handlers
\* up to the first one that raises.
RECURSIVE UntilRaise(_)
UntilRaise(handlers) ==
    IF handlers = << >> THEN << >>
    ELSE IF Raises(Head(handlers)) THEN <<Head(handlers)>>
    ELSE <<Head(handlers)>> \o UntilRaise(Tail(handlers))

DispatchStopsAtRaise(t, message) ==
    UntilRaise(exec_matches(t, Probe(message), message.args_list))

\* Line 310: self._match_rule_tree.exec_matches(match_rule, message).
Dispatch(t, message) ==
    exec_matches(t, Probe(message), message.args_list)

\* What the call of one handler leaves of its connection's tree and rules:
\* a handler that unsubscribes or subscribes runs remove_signal_receiver or
\* add_signal_receiver (whose line 268 the transport accepts or rejects).
CallbackEffect(st, h, accepted) ==
    LET body == CallbackBody(h)
    IN  IF body.op = "remove"
        THEN [st EXCEPT !.tree =
                 RemoveRule(@, RemovalKey(body.handler, body.call,
                     ResolveSender(owner, body.call.named_service).sender,
                     create_args_dict(body.call.keywords).args_dict))]
        ELSE IF body.op = "add"
        THEN LET match_rule ==
                     BuildRule(body.handler, body.call,
                         ResolveSender(owner, body.call.named_service).sender,
                         create_args_dict(body.call.keywords).args_dict)
             IN  [st EXCEPT !.tree = InsertRule(@, match_rule),
                            !.daemon =
                                IF accepted
                                THEN @ (+) SetToBag({MatchRuleString(match_rule)})
                                ELSE @]
        ELSE st

\* The handler is still held by an entry of the tree.
StillStored(t, h) == \E i \in DOMAIN t : Contains(t[i].handler_functions, h)

\* The pass with the index consulted again before each call: a handler
\* unsubscribed earlier in the pass is skipped.
RECURSIVE execute_live(_, _, _)
execute_live(st, matched, accepted) ==
    IF matched = << >> THEN st
    ELSE IF ~StillStored(st.tree, Head(matched))
    THEN execute_live(st, Tail(matched), accepted)
    ELSE execute_live(
             [CallbackEffect(st, Head(matched), accepted)
                 EXCEPT !.invoked = Append(@, Head(matched))],
             Tail(matched), accepted)

\* Section 4.3 step 3 and section 5: every callback of the matches found at
\* the start of the pass is called, in order, whatever a callback raises or
\* does to the index meanwhile.
RECURSIVE execute(_, _, _)
execute(st, matched, accepted) ==
    IF matched = << >> THEN st
    ELSE execute(
             [CallbackEffect(st, Head(matched), accepted)
                 EXCEPT !.invoked = Append(@, Head(matched))],
             Tail(matched), accepted)

\* Line 300 with every message taken for a signal.
AnyTypeIsSignal(message) == TRUE

\* Line 300: message.get_type() == _dbus_bindings.MESSAGE_TYPE_SIGNAL.
IsSignal(message) == message.type = MESSAGE_TYPE_SIGNAL

\* Line 310 with one tree for the whole class.
class_match_rule_tree(tr, b) == tr[1]

\* Line 310: self._match_rule_tree.
match_rule_tree(tr, b) == tr[b]

signal_func(b, message) ==
    /\ pc = Idle
    /\ Alive(b)
    /\ message \in vocab.msgs
    /\ IF ~IsSignal(message)
       THEN /\ ret' = Ret("dispatch", b, None, None, "NOT_YET_HANDLED",
                          message, << >>)
            /\ UNCHANGED <<tree, daemon>>
       ELSE \E accepted \in BOOLEAN :
                LET matched == Dispatch(match_rule_tree(tree, b), message)
                    after == execute([tree |-> tree[b], daemon |-> daemon[b],
                                      invoked |-> << >>], matched, accepted)
                IN  /\ Len(after.tree) <= MaxRules
                    /\ Len(after.tree) <= vocab.rules
                    /\ BagCardinality(after.daemon) <= MaxMatches
                    /\ BagCardinality(after.daemon) <= vocab.matches
                    /\ tree' = [tree EXCEPT ![b] = after.tree]
                    /\ daemon' = [daemon EXCEPT ![b] = after.daemon]
                    /\ ret' = Ret("dispatch", b, None, None, None, message,
                                  after.invoked)
    /\ UNCHANGED <<vocab, owner, shared, nbus, bus, pc>>

Next ==
    \/ \E t \in BusTypes \cup {"invalid"}, p \in BOOLEAN : Bus_new(t, p)
    \/ \E b \in BusIds : Release(b)
    \/ \E b \in BusIds : close(b)
    \/ \E n \in WellKnownNames, u \in {U1, U2, NoName} : NameOwnerChanged(n, u)
    \/ \E b \in BusIds, s \in vocab.subs : add_signal_receiver(b, s[1], s[2])
    \/ add_signal_receiver_reply
    \/ \E a \in BOOLEAN : bus_add_match(a)
    \/ \E b \in BusIds, r \in vocab.removes :
           remove_signal_receiver(b, r[1], r[2])
    \/ remove_signal_receiver_reply
    \/ \E b \in BusIds, m \in vocab.msgs : signal_func(b, m)

Spec == Init /\ [][Next]_vars

(***************************************************************************)
(* Properties.                                                             *)
(*                                                                         *)
(* Every action of the program sets ret, so in a state whose ret.op is an  *)
(* operation the tree and the daemon's rules are those the operation left  *)
(* behind, and ret.before, ret.dbefore and ret.owner are the tree, the     *)
(* rules and the daemon's table it found.  While the operation waits for   *)
(* the reply of GetNameOwner its ret.result is "blocked".                  *)
(***************************************************************************)
Handlers == {"A", "B", "C", "R", "U", "S"}

Count(seq, x) == Cardinality({i \in DOMAIN seq : seq[i] = x})

RemoveAt(seq, i) == SubSeq(seq, 1, i - 1) \o SubSeq(seq, i + 1, Len(seq))

\* The subscribe call has put its rule in the tree (line 266 was reached).
Inserted == ret.op = "add" /\ ret.result \in {"pending", "ok", "DBusException"}

IsSignalDispatch == ret.op = "dispatch" /\ ret.msg.type = MESSAGE_TYPE_SIGNAL

\* The name is well known and the daemon knows no owner of it.
Unowned(name) ==
    /\ name # NoName
    /\ Head(name) # ":"
    /\ name \notin DOMAIN ret.owner \/ ret.owner[name] = NoName

\* The sender a call's named_service stands for: itself, or its owner.
SenderOf(name) ==
    IF name # NoName /\ Head(name) # ":" /\ name \in DOMAIN ret.owner
    THEN ret.owner[name] ELSE name

ValidKeywords(keywords) == \A k \in Keys(keywords) : ~RaisesTypeError(k)

\* The stored entry has the filter the call's arguments describe.
HasFilterOf(entry, call) ==
    /\ entry.signal_name = call.signal_name
    /\ entry.dbus_interface = call.dbus_interface
    /\ entry.sender = SenderOf(call.named_service)
    /\ entry.path = call.path
    /\ entry.args = create_args_dict(call.keywords).args_dict

\* Every filter field the entry has equals the message's field, and every
\* positional match of the entry is met by the message's arguments.
Accepts(entry, message) ==
    /\ entry.signal_name # None => entry.signal_name = message.member
    /\ entry.dbus_interface # None => entry.dbus_interface = message.interface
    /\ entry.sender # NoName => entry.sender = message.sender
    /\ entry.path # None => entry.path = message.path
    /\ \A n \in DOMAIN entry.args :
           /\ n >= 0
           /\ Len(message.args_list) >= n + 1
           /\ message.args_list[n + 1] = entry.args[n]

\* C1: in every reachable state, the intermediate states of a subscribe call
\* included, each pattern stored in a connection's index has already had its
\* rule registered with the daemon.
C1_StoredRuleIsRegistered ==
    \A b \in BusIds : \A i \in DOMAIN tree[b] :
        BagIn(MatchRuleString(tree[b][i]), daemon[b])

\* C2: when the transport rejects the match rule of a subscribe call, the
\* index is what it was before the call (so the handler is not stored and no
\* later dispatch calls it).
C2_RejectedSubscribeLeavesIndex ==
    (ret.op = "add" /\ ret.result = "DBusException")
        => tree[ret.bus] = ret.before

\* C3: a subscribe call (with valid keywords) whose sender is a well-known
\* name without an owner when the daemon is asked raises the resolver's
\* error once the reply has come, and neither before nor after the reply
\* inserts anything into the index or registers anything with the daemon.
C3_UnownedSenderIsRefused ==
    (/\ ret.op = "add"
     /\ Unowned(ret.call.named_service)
     /\ ValidKeywords(ret.call.keywords))
        => /\ IF pc = Idle THEN ret.result = "NameHasNoOwner"
              ELSE ret.result = "blocked" /\ pc.op = "GetNameOwner"
           /\ tree[ret.bus] = ret.before
           /\ daemon[ret.bus] = ret.dbefore

C3_Witness ==
    /\ ret.op = "add"
    /\ ret.call = CallGone
    /\ ret.result = "NameHasNoOwner"
    /\ ret.before # << >>

\* C4: a subscribe call with a keyword that starts with 'arg' and whose
\* suffix is not a non-negative integer has, when it has returned, raised
\* TypeError and left the index and the daemon's rules unchanged.
C4_MalformedIndexIsRefused ==
    (/\ ret.op = "add"
     /\ pc = Idle
     /\ \E k \in Keys(ret.call.keywords) :
            /\ startswith(k, ArgPrefix)
            /\ ~(int(snum(k)).ok /\ int(snum(k)).val >= 0))
        => /\ ret.result = "TypeError"
           /\ tree[ret.bus] = ret.before
           /\ daemon[ret.bus] = ret.dbefore

\* C5: for each bus type at most one live shared Bus exists and it is the
\* registry's entry; a non-private request returns the registry's entry; a
\* private request returns a new Bus that is no entry of the registry.
SharedBuses(t) ==
    {b \in 1..nbus : bus[b].alive /\ ~bus[b].private /\ bus[b].bus_type = t}

C5_OneSharedBusPerType ==
    /\ \A t \in BusTypes :
           /\ Cardinality(SharedBuses(t)) <= 1
           /\ SharedBuses(t) = {shared[t]} \ {0}
    /\ (ret.op = "new" /\ ret.call[1] \in BusTypes) =>
           IF ret.call[2]
           THEN /\ ret.result = "created"
                /\ ret.bus = nbus
                /\ bus[ret.bus].private
                /\ bus[ret.bus].bus_type = ret.call[1]
                /\ \A t \in BusTypes : shared[t] # ret.bus
           ELSE /\ ret.bus = shared[ret.call[1]]
                /\ ret.bus \in SharedBuses(ret.call[1])

C5_Witness ==
    /\ ret.op = "new"
    /\ ret.result = "shared"
    /\ \E p \in 1..nbus :
           /\ bus[p].alive
           /\ bus[p].private
           /\ bus[p].bus_type = ret.call[1]
           /\ p > ret.bus

\* C6: for every inbound signal the callbacks called are exactly those of the
\* stored patterns each of whose present filter fields (signal name,
\* interface, sender, path) equals the message's field and whose positional
\* matches, if it has any, the message's arguments meet: an unset field
\* excludes nothing and one differing field excludes the pattern.
C6_CalledExactlyTheMatching ==
    IsSignalDispatch =>
        /\ \A i \in DOMAIN ret.invoked : ret.invoked[i] \in Handlers
        /\ \A h \in Handlers :
               Count(ret.invoked, h) =
                   Cardinality({i \in DOMAIN ret.before :
                       /\ ret.before[i].handler_functions = <<h>>
                       /\ Accepts(ret.before[i], ret.msg)})

\* A signal that differs in its path alone from a stored pattern with all
\* four fields set, which is therefore not called.
C6_Witness ==
    /\ IsSignalDispatch
    /\ ret.invoked = << >>
    /\ \E i \in DOMAIN ret.before :
           LET e == ret.before[i]
           IN  /\ e.signal_name = ret.msg.member
               /\ e.dbus_interface = ret.msg.interface
               /\ e.sender = ret.msg.sender
               /\ e.path \notin {None, ret.msg.path}
               /\ e.args = NoArgs

\* The positions of the argN keywords of index n, in iteration order.
ArgPositions(keywords, n) ==
    {i \in DOMAIN keywords :
        startswith(keywords[i][1], ArgPrefix)
            /\ int(snum(keywords[i][1])).val = n}

Max(S) == CHOOSE x \in S : \A y \in S : y <= x

\* The positional matches the argN=v keywords ask for: v at index N (the v
\* of the keyword that comes last, when two keywords name one index) and no
\* match at an index that no keyword names.
StoresPositional(entry, keywords) ==
    /\ \A i \in DOMAIN keywords :
           startswith(keywords[i][1], ArgPrefix) =>
               LET n == int(snum(keywords[i][1])).val
               IN  /\ n \in DOMAIN entry.args
                   /\ entry.args[n] =
                          keywords[Max(ArgPositions(keywords, n))][2]
    /\ \A n \in DOMAIN entry.args : ArgPositions(keywords, n) # {}

\* The message has an argument at each non-negative index the entry
\* constrains, and it is the entry's value.
PositionalMet(entry, args_list) ==
    \A n \in DOMAIN entry.args :
        n >= 0 => (Len(args_list) >= n + 1 /\ args_list[n + 1] = entry.args[n])

\* C7: a subscribe call with argN=v stores a pattern with that positional
\* match, and a signal calls a handler only through patterns whose positional
\* matches it meets: at least N+1 arguments and the argument at index N equal
\* to v.
C7_PositionalMatchIsExact ==
    /\ Inserted =>
           \E i \in DOMAIN tree[ret.bus] :
               /\ RemoveAt(tree[ret.bus], i) = ret.before
               /\ StoresPositional(tree[ret.bus][i], ret.call.keywords)
    /\ IsSignalDispatch =>
           \A h \in Handlers :
               Count(ret.invoked, h) <=
                   Cardinality({i \in DOMAIN ret.before :
                       /\ Contains(ret.before[i].handler_functions, h)
                       /\ PositionalMet(ret.before[i], ret.msg.args_list)})

\* A on arg0='X' and B on arg1='X' receive ('Y', 'X'): B alone is called;
\* and they receive ('x'): neither is called.
C7_Witness ==
    /\ IsSignalDispatch
    /\ Len(ret.before) = 2
    /\ ret.before[1].handler_functions = <<"A">>
    /\ ret.before[1].args = (0 :> "X")
    /\ ret.before[2].handler_functions = <<"B">>
    /\ ret.before[2].args = (1 :> "X")
    /\ \/ ret.msg = MsgArgYX /\ ret.invoked = <<"B">>
       \/ ret.msg = MsgArgLower /\ ret.invoked = << >>

\* The handlers of the entries that accept the message, in the order of the
\* entries.
RECURSIVE InEntryOrder(_, _, _)
InEntryOrder(t, message, n) ==
    IF n = 0 THEN << >>
    ELSE InEntryOrder(t, message, n - 1)
             \o (IF Accepts(t[n], message) THEN t[n].handler_functions
                 ELSE << >>)

\* C8: a subscribe call puts its pattern after the patterns already stored,
\* and a signal calls the handlers of the matching patterns in the order the
\* patterns are stored; each delivered message is the one dispatched.
C8_DispatchFollowsSubscription ==
    /\ Inserted =>
           /\ Len(tree[ret.bus]) = Len(ret.before) + 1
           /\ SubSeq(tree[ret.bus], 1, Len(ret.before)) = ret.before
           /\ tree[ret.bus][Len(tree[ret.bus])].handler_functions
                  = <<ret.handler>>
    /\ IsSignalDispatch =>
           ret.invoked =
               InEntryOrder(ret.before, ret.msg, Len(ret.before))

\* A, B and C subscribed in this order on one filter, and called in it.
C8_Witness ==
    /\ IsSignalDispatch
    /\ Len(ret.before) = 3
    /\ \A i \in 1..3 : HasFilterOf(ret.before[i], CallFoo)
    /\ ret.before[1].handler_functions = <<"A">>
    /\ ret.before[2].handler_functions = <<"B">>
    /\ ret.before[3].handler_functions = <<"C">>
    /\ ret.invoked = <<"A", "B", "C">>

\* The entries of t except those of the call's filter that hold the handler.
RECURSIVE Without(_, _, _)
Without(t, handler, call) ==
    IF t = << >> THEN << >>
    ELSE (IF HasFilterOf(Head(t), call)
             /\ Contains(Head(t).handler_functions, handler)
          THEN << >> ELSE <<Head(t)>>) \o Without(Tail(t), handler, call)

\* C9: an unsubscribe call with a handler removes the entries of its filter
\* that hold this handler and no other entry, so that a second handler on
\* the same filter stays; no entry is ever without callbacks; and a signal
\* calls the handler of every stored entry that accepts it and no handler
\* that is not stored.
C9_SelectiveRemoval ==
    /\ (ret.op = "remove" /\ ret.result = "ok" /\ ret.handler # None) =>
           tree[ret.bus] = Without(ret.before, ret.handler, ret.call)
    /\ \A b \in BusIds : \A i \in DOMAIN tree[b] :
           tree[b][i].handler_functions # << >>
    /\ IsSignalDispatch =>
           /\ \A i \in DOMAIN ret.before :
                  Accepts(ret.before[i], ret.msg) =>
                      \A j \in DOMAIN ret.before[i].handler_functions :
                          Contains(ret.invoked,
                                   ret.before[i].handler_functions[j])
           /\ \A k \in DOMAIN ret.invoked :
                  \E i \in DOMAIN ret.before :
                      Contains(ret.before[i].handler_functions,
                               ret.invoked[k])

\* A and B were on one filter, A was unsubscribed, and the next signal of
\* that filter calls B alone.
C9_Witness ==
    /\ IsSignalDispatch
    /\ ret.msg = MsgFoo
    /\ ret.invoked = <<"B">>
    /\ Len(ret.before) = 1
    /\ HasFilterOf(ret.before[1], CallFoo)
    /\ BagCardinality(daemon[ret.bus]) = 2

\* No entry has the call's filter and, when the call names a handler, holds
\* that handler.
NoStoredMatch(t, handler, call) ==
    \A i \in DOMAIN t :
        ~(/\ HasFilterOf(t[i], call)
          /\ handler # None => Contains(t[i].handler_functions, handler))

\* C10: an unsubscribe call (with valid keywords and a sender that resolves)
\* whose filter matches no stored pattern returns without error and leaves
\* the index as it was; an unsubscribe call that raises leaves it as it was
\* too.
C10_RemovalOfNothing ==
    ret.op = "remove" =>
        IF ret.result = "blocked" THEN tree[ret.bus] = ret.before
        ELSE IF /\ ValidKeywords(ret.call.keywords)
                /\ ~Unowned(ret.call.named_service)
        THEN NoStoredMatch(ret.before, ret.handler, ret.call) =>
                 (ret.result = "ok" /\ tree[ret.bus] = ret.before)
        ELSE ret.result # "ok" /\ tree[ret.bus] = ret.before

\* A filter that was never subscribed is unsubscribed from an index that
\* holds other patterns; and a handler is unsubscribed from a filter on
\* which only another handler is stored.
C10_Witness ==
    /\ ret.op = "remove"
    /\ ret.result = "ok"
    /\ ret.before # << >>
    /\ NoStoredMatch(ret.before, ret.handler, ret.call)
    /\ \/ ret.call = CallBar
       \/ ret.handler = "A" /\ \E i \in DOMAIN ret.before :
              HasFilterOf(ret.before[i], ret.call)

\* The entries of t that hold the handler and accept the message.
AcceptingEntries(t, h, message) ==
    {i \in DOMAIN t :
        Contains(t[i].handler_functions, h) /\ Accepts(t[i], message)}

\* C11: when a callback raises during the dispatch of a signal, every other
\* callback of a pattern that matches the signal, on the same filter or on
\* another, is still called for that signal, once for each such pattern.
C11_RaisingCallbackIsIsolated ==
    (/\ IsSignalDispatch
     /\ \E r \in Handlers :
            Raises(r) /\ AcceptingEntries(ret.before, r, ret.msg) # {}) =>
        \A h \in Handlers :
            Count(ret.invoked, h) =
                Cardinality(AcceptingEntries(ret.before, h, ret.msg))

\* R raises first; A, on R's filter, and B, on another filter, are called
\* after it.
C11_Witness ==
    /\ IsSignalDispatch
    /\ ret.msg = MsgFoo
    /\ ret.invoked = <<"R", "A", "B">>
    /\ HasFilterOf(ret.before[1], CallFoo)
    /\ HasFilterOf(ret.before[2], CallFoo)
    /\ HasFilterOf(ret.before[3], CallPath)

\* C12: while a connection lives, no step takes a rule away from those the
\* daemon holds for it; an unsubscribe call leaves them as they are; and a
\* subscribe call that the transport accepts adds one registration of its
\* rule, also when the daemon already holds an identical one.
C12_DaemonRulesOnlyGrow ==
    [][/\ \A b \in BusIds :
              (bus[b].alive /\ bus'[b].alive) => daemon[b] \sqsubseteq daemon'[b]
       /\ ret'.op = "remove" => daemon' = daemon
       /\ (pc.op = "add" /\ ret'.result = "ok") =>
              /\ CopiesIn(MatchRuleString(pc.rule), daemon'[pc.bus])
                     = CopiesIn(MatchRuleString(pc.rule), daemon[pc.bus]) + 1
              /\ BagCardinality(daemon'[pc.bus])
                     = BagCardinality(daemon[pc.bus]) + 1]_vars

\* An unsubscribe call has emptied the index of a connection for which the
\* daemon holds two registrations of one rule.
C12_Witness ==
    /\ ret.op = "remove"
    /\ ret.result = "ok"
    /\ ret.before # << >>
    /\ tree[ret.bus] = << >>
    /\ daemon[ret.bus] = ret.dbefore
    /\ \E r \in BagToSet(daemon[ret.bus]) : CopiesIn(r, daemon[ret.bus]) = 2

\* C13: a message whose type is not signal calls no callback, leaves the
\* index and the daemon's rules of its connection as they were, and the
\* filter returns HANDLER_RESULT_NOT_YET_HANDLED for it.
C13_NonSignalIsPassedOn ==
    (ret.op = "dispatch" /\ ret.msg.type # MESSAGE_TYPE_SIGNAL) =>
        /\ ret.invoked = << >>
        /\ ret.result = "NOT_YET_HANDLED"
        /\ tree[ret.bus] = ret.before
        /\ daemon[ret.bus] = ret.dbefore

\* A method call whose interface, sender, path and member are those a stored
\* pattern asks of a signal.
C13_Witness ==
    /\ ret.op = "dispatch"
    /\ ret.msg = MsgCall
    /\ ret.invoked = << >>
    /\ \E i \in DOMAIN ret.before : Accepts(ret.before[i], ret.msg)

IsUniqueName(name) == name # NoName /\ Head(name) = ":"

IsWellKnownName(name) == name # NoName /\ Head(name) # ":"

\* C14: the sender of every stored pattern is absent or a unique name, and
\* the pattern that a subscribe call with a well-known sender has stored
\* holds the owner the resolver gave for that name.
C14_StoredSenderIsUnique ==
    /\ \A b \in BusIds : \A i \in DOMAIN tree[b] :
           tree[b][i].sender = NoName \/ IsUniqueName(tree[b][i].sender)
    /\ (Inserted /\ IsWellKnownName(ret.call.named_service)) =>
           LET stored == tree[ret.bus][Len(tree[ret.bus])]
           IN  /\ stored.sender =
                      GetNameOwner(ret.owner, ret.call.named_service).owner
               /\ stored.sender # ret.call.named_service
               /\ IsUniqueName(stored.sender)

\* The well-known name has passed to a second owner, and the subscribe call
\* stores that owner.
C14_Witness ==
    /\ Inserted
    /\ ret.call = CallWellKnown
    /\ tree[ret.bus][Len(tree[ret.bus])].sender = U2
    /\ ret.owner[WellKnownA] = U2

\* C15: when close() has returned, the index of the closed connection holds
\* no pattern and no callback.  It is stated for a connection whose
\* subscribe calls all succeeded.
C15_CloseDiscardsIndex ==
    (/\ ret.op = "close"
     /\ \A i \in DOMAIN ret.before :
            BagIn(MatchRuleString(ret.before[i]), daemon[ret.bus])) =>
        tree[ret.bus] = << >>

\* The entries of t that hold the handler on the filter of the call.
EntriesOf(t, h, call) ==
    {i \in DOMAIN t :
        Contains(t[i].handler_functions, h) /\ HasFilterOf(t[i], call)}

\* C16: when a callback called for a signal unsubscribes or subscribes, the
\* callbacks called for that signal are those of the patterns that matched
\* when the dispatch began, the unsubscribed one included and the newly
\* subscribed one not; the change is in the index when the pass is over, and
\* so counts for the messages that follow.
C16_ChangesDuringDispatchCountLater ==
    (/\ IsSignalDispatch
     /\ \E h \in Handlers :
            /\ CallbackBody(h).op \in {"add", "remove"}
            /\ AcceptingEntries(ret.before, h, ret.msg) # {}) =>
        /\ \A h \in Handlers :
               Count(ret.invoked, h) =
                   Cardinality(AcceptingEntries(ret.before, h, ret.msg))
        /\ Count(ret.invoked, "U") > 0 =>
               EntriesOf(tree[ret.bus], "B", CallFoo) = {}
        /\ Cardinality(EntriesOf(tree[ret.bus], "C", CallFoo)) =
               Cardinality(EntriesOf(ret.before, "C", CallFoo))
                   + Count(ret.invoked, "S")

\* U, called first, unsubscribes B; B is still called for this signal, and
\* is gone from the index afterwards.
C16_Witness ==
    /\ IsSignalDispatch
    /\ ret.msg = MsgFoo
    /\ Len(ret.before) = 2
    /\ ret.before[1].handler_functions = <<"U">>
    /\ ret.before[2].handler_functions = <<"B">>
    /\ ret.invoked = <<"U", "B">>
    /\ Len(tree[ret.bus]) = 1
    /\ tree[ret.bus][1].handler_functions = <<"U">>

\* The entries of t that do not have the filter of the call.
RECURSIVE OffFilter(_, _)
OffFilter(t, call) ==
    IF t = << >> THEN << >>
    ELSE (IF HasFilterOf(Head(t), call) THEN << >> ELSE <<Head(t)>>)
             \o OffFilter(Tail(t), call)

\* C17: an unsubscribe call without a handler builds a key that holds no
\* callback and removes every entry that has the key's filter, whichever
\* handler the entry holds, and no other entry; with a handler the key holds
\* that handler and only the entries of the filter that hold it are removed.
C17_RemovalWithoutHandler ==
    (ret.op = "remove" /\ ret.result = "ok") =>
        LET key == RemovalKey(ret.handler, ret.call,
                              SenderOf(ret.call.named_service),
                              create_args_dict(ret.call.keywords).args_dict)
        IN  IF ret.handler = None
            THEN /\ key.handler_functions = << >>
                 /\ tree[ret.bus] = OffFilter(ret.before, ret.call)
            ELSE /\ key.handler_functions = <<ret.handler>>
                 /\ \A i \in DOMAIN tree[ret.bus] :
                        ~(/\ HasFilterOf(tree[ret.bus][i], ret.call)
                          /\ Contains(tree[ret.bus][i].handler_functions,
                                      ret.handler))
                 /\ Len(tree[ret.bus]) =
                        Len(ret.before)
                            - Cardinality(EntriesOf(ret.before, ret.handler,
                                                    ret.call))

\* A and B are on the filter of CallFoo and a third entry is on another
\* filter: the call without a handler removes both and leaves the third.
C17_Witness ==
    /\ ret.op = "remove"
    /\ ret.result = "ok"
    /\ ret.handler = None
    /\ ret.call = CallFoo
    /\ Len(ret.before) = 3
    /\ EntriesOf(ret.before, "A", CallFoo) # {}
    /\ EntriesOf(ret.before, "B", CallFoo) # {}
    /\ Len(tree[ret.bus]) = 1
    /\ HasFilterOf(tree[ret.bus][1], CallPath)

\* The entry is one that a subscribe call with this handler and these
\* arguments stores: the handler, the call's signal name, interface, path
\* and positional matches, and an owner of the call's well-known name.
StoredBy(entry, handler, call) ==
    /\ Contains(entry.handler_functions, handler)
    /\ entry.signal_name = call.signal_name
    /\ entry.dbus_interface = call.dbus_interface
    /\ entry.path = call.path
    /\ entry.args = create_args_dict(call.keywords).args_dict
    /\ IsUniqueName(entry.sender)

\* C18: when an unsubscribe call with a handler and a well-known sender name
\* has returned, the index holds no entry that a subscribe call with the same
\* handler and the same arguments stored, whoever owned the name when that
\* call was made.  It is stated for a connection whose subscribe calls all
\* succeeded: the daemon holds the rule of every entry the call found.
C18_UnsubscribeUndoesSubscribe ==
    (/\ ret.op = "remove"
     /\ ret.result = "ok"
     /\ ret.handler # None
     /\ IsWellKnownName(ret.call.named_service)
     /\ \A i \in DOMAIN ret.before :
            BagIn(MatchRuleString(ret.before[i]), daemon[ret.bus])) =>
        \A i \in DOMAIN tree[ret.bus] :
            ~StoredBy(tree[ret.bus][i], ret.handler, ret.call)

\* C19: a request for a shared Bus of a type whose shared Bus exists returns
\* that object and changes nothing: no Bus object and no connection is
\* created, the object's index, its daemon rules and the number of filters
\* on its connection are what they were, and so is the registry.
C19_SharedBusIsNotReinitialised ==
    [][(/\ ret'.op = "new"
        /\ ret'.call[1] \in BusTypes
        /\ ~ret'.call[2]
        /\ shared[ret'.call[1]] # 0
        /\ owner' = owner) =>
           /\ ret'.result = "shared"
           /\ ret'.bus = shared[ret'.call[1]]
           /\ UNCHANGED <<nbus, bus, tree, daemon, shared>>]_vars

\* The shared Bus is requested again while it holds a subscription.
C19_Witness ==
    /\ ret.op = "new"
    /\ ret.result = "shared"
    /\ ret.before # << >>
    /\ tree[ret.bus] = ret.before
    /\ bus[ret.bus].filters = 1
    /\ nbus = 1

\* C20: a subscribe call, an unsubscribe call or a dispatch on one connection
\* leaves the index of every other connection as it was, and a signal
\* delivered to a connection calls only handlers that the index of that
\* connection holds.
C20_IndexPerConnection ==
    [][/\ ret'.op \in {"add", "remove", "dispatch"} =>
              \A c \in BusIds \ {ret'.bus} : tree'[c] = tree[c]
       /\ ret'.op = "dispatch" =>
              \A k \in DOMAIN ret'.invoked :
                  StillStored(ret'.before, ret'.invoked[k])]_vars

\* A signal that a pattern of the shared connection accepts is delivered to
\* a private connection without subscriptions, and calls nothing.
C20_Witness ==
    /\ IsSignalDispatch
    /\ ret.invoked = << >>
    /\ ret.before = << >>
    /\ bus[ret.bus].private
    /\ \E c \in BusIds \ {ret.bus} :
           /\ bus[c].alive
           /\ ~bus[c].private
           /\ \E i \in DOMAIN tree[c] : Accepts(tree[c][i], ret.msg)

====
